---- MODULE Spec2Model ----
(***************************************************************************)
(* State-machine model of the vivilux two-phase learning engine.           *)
(*                                                                         *)
(*   - Net / FFFB / Layer / Mesh / fbMesh of src/src/vivilux/__init__.py   *)
(*   - Mesh / TransposeMesh of src/src/vivilux/meshes.py                   *)
(*                                                                         *)
(* Real numbers are modelled in fixed point: the integer v stands for the  *)
(* real v / Scale.  numpy arrays are modelled with their storage: a state  *)
(* vector of a layer is either an array the layer allocated itself ("own") *)
(* or a view of a row of the caller's inData / outData batch ("in" /       *)
(* "out"), because slicing (data[:n]) returns a view and the in-place      *)
(* statements (x[:] = y, x += y, x -= y) write through it.                 *)
(***************************************************************************)
EXTENDS Integers, Sequences, FiniteSets

\* ------------------------------------------------------------------------
\* Numeric resolution and bounds
\* ------------------------------------------------------------------------
\* DELTA_TIME = 0.1, in units of 1/Scale
DELTA_TIME == 2
Scale == 10 * DELTA_TIME
\* learningRate = 0.1 (default of Net.__init__), in units of 1/Scale
LearningRate == 2

\* number of neurons of every layer of the modelled network
LayerSize == 2
\* largest network (number of layers, input layer included)
MaxLayers == 3
\* largest numTimeSteps, numEpochs and number of samples passed to Net.Learn
MaxTimeSteps == 2
MaxEpochs == 2
MaxSamples == 2

Mul(a, b) == (a * b) \div Scale

\* F applied to the value of e: e is evaluated once, before F uses it
Then(e, F(_)) == CHOOSE r \in {F(x) : x \in {e}} : TRUE

RECURSIVE SumTo(_, _)
SumTo(f, n) == IF n = 0 THEN 0 ELSE f[n] + SumTo(f, n - 1)

Zeros(n) == [i \in 1..n |-> 0]
Min(a, b) == IF a < b THEN a ELSE b
Max(a, b) == IF a > b THEN a ELSE b

\* np.eye(size)
Eye(n) == [i \in 1..n |-> [j \in 1..n |-> IF i = j THEN Scale ELSE 0]]
\* M.T
Transpose(M) == [i \in 1..Len(M) |-> [j \in 1..Len(M) |-> M[j][i]]]
\* M @ d for a square M and a vector d of the same length
MatVec(M, d) ==
  [i \in 1..Len(M) |-> SumTo([j \in 1..Len(d) |-> M[i][j] * d[j]], Len(d)) \div Scale]

\* ------------------------------------------------------------------------
\* External capabilities: activation, metric
\* ------------------------------------------------------------------------
\* Sigmoid(A=1, B=4, C=0.5) tabulated at resolution 1/Scale:
\* SigmoidTable[k+1] = round(Scale / (1 + exp(-4 (k/Scale - 0.5))))
SigmoidTable ==
  << 2, 3, 3, 4, 5, 5, 6, 7, 8, 9, 10, 11, 12, 13, 14, 15, 15, 16, 17, 17, 18,
     18, 18, 19, 19, 19, 19, 19, 19, 20, 20, 20, 20, 20, 20, 20, 20, 20, 20, 20, 20 >>

Sigmoid(x) ==
  IF x < -8 THEN 0
  ELSE IF x < -2 THEN 1
  ELSE IF x < 0 THEN 2
  ELSE IF x >= Len(SigmoidTable) THEN Scale
  ELSE SigmoidTable[x + 1]

\* self.act(vector)
Act(v) == [i \in 1..Len(v) |-> Sigmoid(v[i])]

\* the configured metric: sum of squared errors of two batches of equal shape
RowErr(p, t) == SumTo([i \in 1..Len(p) |-> (p[i] - t[i]) * (p[i] - t[i])], Len(p))
Metric(pred, targ) == SumTo([r \in 1..Len(pred) |-> RowErr(pred[r], targ[r])], Len(pred))

\* ------------------------------------------------------------------------
\* Arrays and their storage
\* ------------------------------------------------------------------------
\* an array owned by the holder
Own(vec) == [k |-> "own", v |-> vec, r |-> 0, n |-> Len(vec)]
\* a view of the first n entries of row r of the caller's batch b ("in"/"out")
View(b, row, len) == [k |-> b, v |-> <<>>, r |-> row, n |-> len]

\* current contents of an array
Rd(s, ref) ==
  IF ref.k = "own" THEN ref.v
  ELSE IF ref.k = "in" THEN SubSeq(s.inData[ref.r], 1, ref.n)
  ELSE SubSeq(s.outData[ref.r], 1, ref.n)

\* data[:n]
Slice(ref, len) ==
  IF ref.k = "own" THEN Own(SubSeq(ref.v, 1, Min(len, ref.n)))
  ELSE View(ref.k, ref.r, Min(len, ref.n))

\* numpy broadcasting of a 1-d operand of length q into a target of length p
CanBcast(q, p) == q = p \/ q = 1
Bcast(vec, p) == IF Len(vec) = p THEN vec ELSE [i \in 1..p |-> vec[1]]

Overlay(row, vec) == [i \in 1..Len(row) |-> IF i <= Len(vec) THEN vec[i] ELSE row[i]]

\* in-place write of vec into the storage of layer l's field f (f[:] = vec)
InPlace(s, f, l, vec) ==
  LET ref == s[f][l] IN
  IF ref.k = "own" THEN [s EXCEPT ![f][l] = Own(vec)]
  ELSE IF ref.k = "in" THEN [s EXCEPT !.inData[ref.r] = Overlay(s.inData[ref.r], vec)]
  ELSE [s EXCEPT !.outData[ref.r] = Overlay(s.outData[ref.r], vec)]

\* f[:] = src, with numpy's shape check
CopyInto(s, f, l, src) ==
  IF s.err # "" THEN s
  ELSE IF ~CanBcast(Len(src), s[f][l].n) THEN [s EXCEPT !.err = "ValueError"]
  ELSE Then(Bcast(src, s[f][l].n), LAMBDA vec : InPlace(s, f, l, vec))

\* ------------------------------------------------------------------------
\* Mesh and fbMesh of __init__.py
\* ------------------------------------------------------------------------
\* Mesh.__init__(size, inLayer, learningRate)
NewMesh(size, inLayer, inLen, rate) ==
  [kind |-> "Mesh", matrix |-> Eye(IF size > inLen THEN size ELSE inLen),
   inLayer |-> inLayer, rate |-> rate, target |-> 0]

\* fbMesh.__init__(mesh, inLayer): mesh is the first mesh of layer target
NewFbMesh(meshSize, target, inLayer, inLen) ==
  [kind |-> "fbMesh", matrix |-> Eye(IF meshSize > inLen THEN meshSize ELSE inLen),
   inLayer |-> inLayer, rate |-> Scale \div 2, target |-> target]

\* Mesh.get / fbMesh.get
MeshGet(s, m) ==
  IF m.kind = "fbMesh" THEN Transpose(s.meshes[m.target][1].matrix) ELSE m.matrix

\* Mesh.apply / fbMesh.apply: the product, or None on a shape mismatch
MeshApply(s, m, data) ==
  LET matrix == IF m.kind = "fbMesh" THEN Transpose(s.meshes[m.target][1].matrix)
                ELSE m.matrix
  IN IF Len(data) # Len(matrix) THEN [ok |-> FALSE, v |-> <<>>]
     ELSE [ok |-> TRUE, v |-> MatVec(matrix, data)]

\* Mesh.Predict / Mesh.Observe
MeshPredict(s, m) == MeshApply(s, m, Rd(s, s.preAct[m.inLayer]))
MeshObserve(s, m) == MeshApply(s, m, Rd(s, s.obsAct[m.inLayer]))

\* numpy broadcasting of a 2-d operand into an n x n target
CanBcastM(delta, n) ==
  /\ Len(delta) \in {1, n}
  /\ \A i \in 1..Len(delta) : Len(delta[i]) \in {1, n}
BcastAt(len, i) == IF len = 1 THEN 1 ELSE i

\* Mesh.Update: self.matrix += self.rate*delta
MeshUpdateMatrix(m, delta) ==
  [i \in 1..Len(m.matrix) |-> [j \in 1..Len(m.matrix) |->
      LET row == delta[BcastAt(Len(delta), i)]
      IN m.matrix[i][j] + Mul(m.rate, row[BcastAt(Len(row), j)])]]

\* a feedback mesh whose Update is the one it inherits from Mesh
FbMeshUpdateInherited(m, delta) == MeshUpdateMatrix(m, delta)

\* fbMesh.Update: return None
FbMeshUpdateMatrix(m, delta) == m.matrix

\* Mesh.set(matrix) of __init__.py on mesh i of layer l
MeshSetMatrix(s, l, i, M) == [s EXCEPT !.meshes[l][i].matrix = M]

\* fbMesh.set(matrix): set takes no argument and its body raises, so the call
\* raises in either form
FbMeshSet(s, l, i, M) == [s EXCEPT !.err = "TypeError"]

\* an Update on a mesh list shared by all layers (a class-level "meshes"):
\* mesh i of every layer that has one is updated
MeshUpdateShared(s, l, i, delta) ==
  [s EXCEPT !.meshes = [x \in DOMAIN s.meshes |->
      IF Len(s.meshes[x]) >= i /\ s.meshes[x][i].kind = "Mesh"
      THEN [s.meshes[x] EXCEPT ![i].matrix = MeshUpdateMatrix(s.meshes[x][i], delta)]
      ELSE s.meshes[x]]]

\* mesh.Update(delta) on mesh i of layer l, dispatched on the class of the mesh
MeshUpdate(s, l, i, delta) ==
  LET m == s.meshes[l][i] IN
  IF m.kind = "fbMesh" THEN [s EXCEPT !.meshes[l][i].matrix = FbMeshUpdateMatrix(m, delta)]
  ELSE IF ~CanBcastM(delta, Len(m.matrix)) THEN [s EXCEPT !.err = "ValueError"]
  ELSE [s EXCEPT !.meshes[l][i].matrix = MeshUpdateMatrix(m, delta)]

\* ------------------------------------------------------------------------
\* The learning rule (external capability): contrastive Hebbian learning,
\* outer(obs_out, obs_in) - outer(pre_out, pre_in)
\* ------------------------------------------------------------------------
CHL(s, inL, outL) ==
  LET oi == Rd(s, s.obsAct[inL])   oo == Rd(s, s.obsAct[outL])
      pi == Rd(s, s.preAct[inL])   po == Rd(s, s.preAct[outL])
  IN IF ~(CanBcast(Len(oo), Len(po)) \/ CanBcast(Len(po), Len(oo)))
        \/ ~(CanBcast(Len(oi), Len(pi)) \/ CanBcast(Len(pi), Len(oi)))
     THEN [ok |-> FALSE, v |-> <<>>]
     ELSE [ok |-> TRUE,
           v |-> [i \in 1..Max(Len(oo), Len(po)) |-> [j \in 1..Max(Len(oi), Len(pi)) |->
                    Mul(oo[BcastAt(Len(oo), i)], oi[BcastAt(Len(oi), j)])
                    - Mul(po[BcastAt(Len(po), i)], pi[BcastAt(Len(pi), j)])]]]

\* ------------------------------------------------------------------------
\* Layer of __init__.py
\* ------------------------------------------------------------------------
\* Layer.__len__
LayerLen(s, l) == s.preAct[l].n

\* x - DELTA_TIME*x
Decay(v) == [i \in 1..Len(v) |-> v[i] - Mul(DELTA_TIME, v[i])]
\* DELTA_TIME * y[:n]**2
Drive(y, n) == [i \in 1..Min(n, Len(y)) |-> Mul(DELTA_TIME, Mul(y[i], y[i]))]
VecAdd(a, b) == [i \in 1..Len(a) |-> a[i] + b[i]]

\* the loop over self.meshes of Layer.Predict (phase = "pre") and
\* Layer.Observe (phase = "obs"), from mesh i on
RECURSIVE Integrate(_, _, _, _)
Integrate(s, l, phase, i) ==
  IF s.err # "" \/ i > Len(s.meshes[l]) THEN s
  ELSE
    LET lin == IF phase = "pre" THEN "preLin" ELSE "obsLin"
        y == IF phase = "pre" THEN MeshPredict(s, s.meshes[l][i])
             ELSE MeshObserve(s, s.meshes[l][i])
        cur == Rd(s, s[lin][l])
        add == Drive(y.v, LayerLen(s, l))
    IN IF ~y.ok THEN [s EXCEPT !.err = "TypeError"]
       ELSE IF ~CanBcast(Len(add), Len(cur)) THEN [s EXCEPT !.err = "ValueError"]
       ELSE Then(VecAdd(cur, Bcast(add, Len(cur))), LAMBDA vec :
              Then(InPlace(s, lin, l, vec), LAMBDA s1 : Integrate(s1, l, phase, i + 1)))

\* Layer.Predict
LayerPredict(s, l) ==
  IF s.err # "" THEN s ELSE
  Then(Decay(Rd(s, s.preLin[l])), LAMBDA vec :
    Then(InPlace(s, "preLin", l, vec), LAMBDA s1 :
      Then(Integrate(s1, l, "pre", 1), LAMBDA s2 :
        IF s2.err # "" THEN s2
        ELSE [s2 EXCEPT !.preAct[l] = Own(Act(Rd(s2, s2.preLin[l])))])))

\* Layer.Observe
LayerObserve(s, l) ==
  IF s.err # "" THEN s ELSE
  Then(Decay(Rd(s, s.obsLin[l])), LAMBDA vec :
    Then(InPlace(s, "obsLin", l, vec), LAMBDA s1 :
      Then(Integrate(s1, l, "obs", 1), LAMBDA s2 :
        IF s2.err # "" THEN s2
        ELSE [s2 EXCEPT !.obsAct[l] = Own(Act(Rd(s2, s2.obsLin[l])))])))

\* Layer.ClampPre(data)
ClampPre(s, l, data) ==
  IF s.err # "" THEN s ELSE
  Then([s EXCEPT !.preLin[l] = Slice(data, LayerLen(s, l))], LAMBDA s1 :
    [s1 EXCEPT !.preAct[l] = Slice(data, LayerLen(s1, l))])

\* Layer.ClampObs(data)
ClampObs(s, l, data) ==
  IF s.err # "" THEN s ELSE
  Then([s EXCEPT !.obsLin[l] = Slice(data, LayerLen(s, l))], LAMBDA s1 :
    [s1 EXCEPT !.obsAct[l] = Slice(data, LayerLen(s1, l))])

\* Layer.resetActivity
LayerReset(s, l) ==
  LET z == Own(Zeros(LayerLen(s, l)))
  IN [s EXCEPT !.preLin[l] = z, !.preAct[l] = z, !.obsLin[l] = z, !.obsAct[l] = z]

\* a guard of Layer.Learn that forgets the freeze flag
LearnSkippedInputOnly(inp, frz) == inp

\* the guard of Layer.Learn: "if self.isInput or self.freeze: return"
LearnSkipped(inp, frz) == inp \/ frz

\* a Layer.Learn that learns on the last owned mesh (self.meshes[-1])
LayerLearnLast(s, l) ==
  IF s.err # "" THEN s
  ELSE IF LearnSkipped(s.isInput[l], s.freeze[l]) THEN s
  ELSE IF Len(s.meshes[l]) = 0 THEN [s EXCEPT !.err = "IndexError"]
  ELSE Then(CHL(s, s.meshes[l][Len(s.meshes[l])].inLayer, l), LAMBDA d :
         IF ~d.ok THEN [s EXCEPT !.err = "ValueError"]
         ELSE MeshUpdate(s, l, Len(s.meshes[l]), d.v))

\* Layer.Learn, self.rule being the default learning rule
LayerLearn(s, l) ==
  IF s.err # "" THEN s
  ELSE IF LearnSkipped(s.isInput[l], s.freeze[l]) THEN s
  ELSE IF Len(s.meshes[l]) = 0 THEN [s EXCEPT !.err = "IndexError"]
  ELSE Then(CHL(s, s.meshes[l][1].inLayer, l), LAMBDA d :
         IF ~d.ok THEN [s EXCEPT !.err = "ValueError"]
         ELSE MeshUpdate(s, l, 1, d.v))

\* ------------------------------------------------------------------------
\* Net and FFFB of __init__.py
\* ------------------------------------------------------------------------
\* Net.__init__ for layers of the given sizes: one mesh from the previous
\* layer for every layer but the first
SizedNetMeshes(sizes) ==
  [l \in 1..Len(sizes) |->
     IF l = 1 THEN <<>>
     ELSE <<NewMesh(sizes[l], l - 1, sizes[l - 1], LearningRate)>>]

\* FFFB.__init__ for layers of the given sizes: Net.__init__, then a feedback
\* mesh on every interior layer
SizedFFFBMeshes(sizes) ==
  [l \in 1..Len(sizes) |->
     IF 1 < l /\ l < Len(sizes)
     THEN Append(SizedNetMeshes(sizes)[l],
                 NewFbMesh(Len(SizedNetMeshes(sizes)[l + 1][1].matrix), l + 1, l + 1,
                           sizes[l + 1]))
     ELSE SizedNetMeshes(sizes)[l]]

\* the same for nl layers of size LayerSize
NetMeshes(nl) == SizedNetMeshes([l \in 1..nl |-> LayerSize])
FFFBMeshes(nl) == SizedFFFBMeshes([l \in 1..nl |-> LayerSize])

NumLayers(s) == Len(s.meshes)

\* the loop "for layer in self.layers[from:to]: layer.Predict()"
RECURSIVE PredictLayers(_, _, _)
PredictLayers(s, l, last) ==
  IF l > last THEN s
  ELSE Then(LayerPredict(s, l), LAMBDA s1 : PredictLayers(s1, l + 1, last))

RECURSIVE ObserveLayers(_, _, _)
ObserveLayers(s, l, last) ==
  IF l > last THEN s
  ELSE Then(LayerObserve(s, l), LAMBDA s1 : ObserveLayers(s1, l + 1, last))

\* Net.Predict(data): the store afterwards; the returned output is preAct of
\* the last layer
NetPredict(s, data) ==
  Then(ClampPre(s, 1, data), LAMBDA s1 :
    Then(PredictLayers(s1, 2, NumLayers(s) - 1), LAMBDA s2 :
      LayerPredict(s2, NumLayers(s))))

\* Net.Observe(inData, outData)
NetObserve(s, inDatum, outDatum) ==
  Then(ClampObs(s, 1, inDatum), LAMBDA s1 :
    Then(ClampObs(s1, NumLayers(s), outDatum), LAMBDA s2 :
      ObserveLayers(s2, 2, NumLayers(s) - 1)))

\* Net.resetActivity
RECURSIVE ResetLayers(_, _)
ResetLayers(s, l) ==
  IF l > NumLayers(s) THEN s
  ELSE Then(LayerReset(s, l), LAMBDA s1 : ResetLayers(s1, l + 1))
NetReset(s) == ResetLayers(s, 1)

\* the phase hand-off of Net.Learn: for layer in self.layers[1:]:
\*   layer.obsLin[:] = layer.preLin; layer.obsAct[:] = layer.preAct
RECURSIVE HandOff(_, _)
HandOff(s, l) ==
  IF l > NumLayers(s) THEN s
  ELSE Then(CopyInto(s, "obsLin", l, Rd(s, s.preLin[l])), LAMBDA s1 :
         Then(CopyInto(s1, "obsAct", l, Rd(s1, s1.preAct[l])), LAMBDA s2 :
           HandOff(s2, l + 1)))

\* the copy-back of Net.Learn: for layer in self.layers[1:]:
\*   layer.preLin[:] = layer.obsLin; layer.preAct[:] = layer.obsAct
RECURSIVE CopyBack(_, _)
CopyBack(s, l) ==
  IF l > NumLayers(s) THEN s
  ELSE Then(CopyInto(s, "preLin", l, Rd(s, s.obsLin[l])), LAMBDA s1 :
         Then(CopyInto(s1, "preAct", l, Rd(s1, s1.obsAct[l])), LAMBDA s2 :
           CopyBack(s2, l + 1)))

\* the inner loop of getWeights without its "if ffOnly: break"
RECURSIVE LayerWeightsNoBreak(_, _, _, _)
LayerWeightsNoBreak(s, l, i, ffOnly) ==
  IF i > Len(s.meshes[l]) THEN <<>>
  ELSE <<MeshGet(s, s.meshes[l][i])>> \o LayerWeightsNoBreak(s, l, i + 1, ffOnly)

\* Net.getWeights(ffOnly): the matrices, in the order the loops append them
RECURSIVE LayerWeights(_, _, _, _)
LayerWeights(s, l, i, ffOnly) ==
  IF i > Len(s.meshes[l]) THEN <<>>
  ELSE <<MeshGet(s, s.meshes[l][i])>> \o
       (IF ffOnly THEN <<>> ELSE LayerWeights(s, l, i + 1, ffOnly))

RECURSIVE GetWeightsFrom(_, _, _)
GetWeightsFrom(s, l, ffOnly) ==
  IF l > NumLayers(s) THEN <<>>
  ELSE LayerWeights(s, l, 1, ffOnly) \o GetWeightsFrom(s, l + 1, ffOnly)

GetWeights(s, ffOnly) == GetWeightsFrom(s, 1, ffOnly)

\* ------------------------------------------------------------------------
\* Mesh and TransposeMesh of meshes.py
\* A mesh object is a record of its attributes; matrices are size x size.
\* ------------------------------------------------------------------------
RECURSIVE Pow(_, _)
Pow(a, n) == IF n = 0 THEN 1 ELSE a * Pow(a, n - 1)

\* Mesh.sigmoid: 1 / (1 + (Off*(1-x)/x)^Gain) for 0 < x < 1, rounded to the
\* nearest multiple of 1/Scale
MSigmoid(m, x) ==
  LET a == Pow(x, m.Gain)
      b == Pow(m.Off * (Scale - x), m.Gain)
  IN (2 * Scale * a + (a + b)) \div (2 * (a + b))

\* Mesh.invSigmoid: 1 / (1 + ((1/Off)*(1-x)/x)^(1/Gain)) for 0 < x < 1,
\* rounded down to a multiple of 1/Scale: the largest y with
\* ((1-x)/(Off x)) <= ((1-y)/y)^Gain
MInvSigmoid(m, x) ==
  CHOOSE y \in 0..Scale :
    /\ (Scale - x) * Pow(y, m.Gain) <= m.Off * x * Pow(Scale - y, m.Gain)
    /\ \A z \in (y + 1)..Scale :
         (Scale - x) * Pow(z, m.Gain) > m.Off * x * Pow(Scale - z, m.Gain)

\* Exact arithmetic for the two transforms: a number is a fraction n/d in
\* lowest terms
RECURSIVE GCD(_, _)
GCD(a, b) == IF b = 0 THEN a ELSE GCD(b, a % b)
Frac(n, d) == [n |-> n \div GCD(n, d), d |-> d \div GCD(n, d)]
\* np.power(a, 1/k) for an a that is a k-th power
IRoot(a, k) == CHOOSE r \in 0..a : Pow(r, k) <= a /\ Pow(r + 1, k) > a

\* Mesh.sigmoid on a fraction 0 < x < 1: 1 / (1 + (Off*(1-x)/x)^Gain)
sigmoid(m, x) ==
  LET a == Pow(x.n, m.Gain)
      b == Pow(m.Off * (x.d - x.n), m.Gain)
  IN Frac(a, a + b)

\* Mesh.invSigmoid on a fraction 0 < x < 1 for which the root is rational:
\* 1 / (1 + ((1/Off)*(1-x)/x)^(1/Gain))
invSigmoid(m, x) ==
  LET f == Frac(x.d - x.n, m.Off * x.n)
      a == IRoot(f.n, m.Gain)
      b == IRoot(f.d, m.Gain)
  IN Frac(b, a + b)

\* ClipLinMatrix without its lower bound
ClipUpperOnly(lin) ==
  [i \in 1..Len(lin) |-> [j \in 1..Len(lin) |->
     IF lin[i][j] > Scale THEN Scale ELSE lin[i][j]]]

\* Mesh.ClipLinMatrix
ClipLinMatrix(lin) ==
  [i \in 1..Len(lin) |-> [j \in 1..Len(lin) |->
     IF lin[i][j] < 0 THEN 0 ELSE IF lin[i][j] > Scale THEN Scale ELSE lin[i][j]]]

\* Mesh.SigMatrix: the new self.matrix
SigMatrix(m) ==
  [i \in 1..m.size |-> [j \in 1..m.size |->
     IF m.linMatrix[i][j] <= 0 THEN 0
     ELSE IF m.linMatrix[i][j] >= Scale THEN Scale
     ELSE MSigmoid(m, m.linMatrix[i][j])]]

\* Mesh.InvSigMatrix: matrix is clamped to [0,1]; linMatrix is recomputed where
\* matrix is strictly inside (0,1) and keeps its entry elsewhere
InvSigMatrix(m) ==
  [m EXCEPT
     !.matrix = [i \in 1..m.size |-> [j \in 1..m.size |->
        IF m.matrix[i][j] <= 0 THEN 0
        ELSE IF m.matrix[i][j] >= Scale THEN Scale ELSE m.matrix[i][j]]],
     !.linMatrix = [i \in 1..m.size |-> [j \in 1..m.size |->
        IF m.matrix[i][j] <= 0 \/ m.matrix[i][j] >= Scale THEN m.linMatrix[i][j]
        ELSE MInvSigmoid(m, m.matrix[i][j])]]]

\* Mesh.__init__ with the default thresholds and gains; raw is the matrix the
\* Glorot-uniform draw produced
MeshNew(size, raw, wbOn, softBound, interval) ==
  InvSigMatrix(
    [size |-> size, Off |-> 1, Gain |-> 6,
     wbOn |-> wbOn, wbAvgThr |-> Scale \div 4, wbHiThr |-> (2 * Scale) \div 5,
     wbHiGain |-> 4, wbLoThr |-> (2 * Scale) \div 5, wbLoGain |-> 6,
     wbInc |-> Scale, wbDec |-> Scale, WtBalInterval |-> 0, softBound |-> softBound,
     WtBalCtr |-> 0, wbFact |-> 0,
     matrix |-> raw, linMatrix |-> raw,
     Gscale |-> Scale, modified |-> FALSE, trainable |-> TRUE,
     AbsScale |-> Scale, RelScale |-> Scale,
     lastAct |-> Zeros(size), inAct |-> Zeros(size)])

\* TransposeMesh.__init__: Mesh.__init__ with RelScale = 0.2, not trainable
TransposeNew(size, raw, wbOn, softBound, interval) ==
  [MeshNew(size, raw, wbOn, softBound, interval) EXCEPT
     !.RelScale = Scale \div 5, !.trainable = FALSE]

\* Mesh.set(matrix)
MeshSet(m, M) == InvSigMatrix([m EXCEPT !.modified = TRUE, !.matrix = M])

\* Mesh.setGscale; totalRel is the sum of RelScale over rcvLayer.excMeshes,
\* avgActP is inLayer.ActAvg.ActPAvg, inLen is len(inLayer)
MeshSetGscale(m, totalRel, avgActP, inLen) ==
  LET g0 == Mul(m.AbsScale, m.RelScale)
      g1 == IF totalRel > 0 THEN (g0 * Scale) \div totalRel ELSE g0
      sendLayActN == Max((2 * avgActP * inLen + Scale) \div (2 * Scale), 1)
  IN [m EXCEPT !.Gscale = g1 \div sendLayActN]

\* Mesh.get
MeshGetM(m) == [i \in 1..m.size |-> [j \in 1..m.size |-> Mul(m.Gscale, m.matrix[i][j])]]

\* self.inLayer = inLayer: the mesh with its sending layer, a layer's position
\* in the network
WithInLayer(m, l) ==
  [f \in DOMAIN m \cup {"inLayer"} |-> IF f = "inLayer" THEN l ELSE m[f]]

\* Mesh.getInput: the layer whose activity is returned
MeshGetInput(m) == [layer |-> m.inLayer]

\* TransposeMesh.getInput for a TransposeMesh t of mesh target:
\* self.mesh.inLayer.getActivity()
TransposeGetInput(t, target) == [layer |-> target.inLayer]

\* self.OptThreshParams = inLayer.OptThreshParams: the mesh with the sending
\* layer's thresholds Send and Delta
WithThresh(m, send, delta) ==
  [f \in DOMAIN m \cup {"OptThreshParams"} |->
     IF f = "OptThreshParams" THEN [Send |-> send, Delta |-> delta] ELSE m[f]]

Abs(x) == IF x < 0 THEN -x ELSE x
\* np.pad(data[:size], (0, size - len(data))) for len(data) <= size
Pad(data, size) == [i \in 1..size |-> IF i <= Len(data) THEN data[i] ELSE 0]

\* an entry that is signalled when it is above either threshold
PropagatesEither(th, x, last) == x > th.Send \/ Abs(x - last) > th.Delta

\* notMask1 of Mesh.apply for an entry with activation x and last signalled
\* value last: not (x <= Send or |x - last| <= Delta)
Propagates(th, x, last) == ~(x <= th.Send \/ Abs(x - last) <= th.Delta)

\* a zeroing that subtracts the last value but keeps it as lastAct
ApplyEntryKeepLast(th, x, last, acc) ==
  LET d1 == IF Propagates(th, x, last) THEN x - last ELSE 0
      last1 == IF Propagates(th, x, last) THEN x ELSE last
      mask2 == last1 > th.Send /\ x <= th.Send
  IN [lastAct |-> last1, inAct |-> acc + (IF mask2 THEN -last1 ELSE d1)]

\* Mesh.apply on one entry: activation x, lastAct entry last, inAct entry acc
ApplyEntry(th, x, last, acc) ==
  LET d1 == IF Propagates(th, x, last) THEN x - last ELSE 0
      last1 == IF Propagates(th, x, last) THEN x ELSE last
      mask2 == last1 > th.Send /\ x <= th.Send
  IN [lastAct |-> IF mask2 THEN 0 ELSE last1,
      inAct |-> acc + (IF mask2 THEN -last1 ELSE d1)]

\* Mesh.applyTo(data): self.get() @ data
MeshApplyTo(m, data) == MatVec(MeshGetM(m), data)

\* Mesh.apply, data being what self.getInput() returns: the mesh afterwards,
\* the returned vector and the exception raised, if any (np.pad raises on a
\* negative pad width)
MeshApplyM(m, data) ==
  IF Len(data) > m.size THEN [m |-> m, ret |-> <<>>, e |-> "ValueError"]
  ELSE
    Then([i \in 1..m.size |->
            ApplyEntry(m.OptThreshParams, Pad(data, m.size)[i], m.lastAct[i], m.inAct[i])],
         LAMBDA r :
      Then([m EXCEPT !.lastAct = [i \in 1..m.size |-> r[i].lastAct],
                     !.inAct = [i \in 1..m.size |-> r[i].inAct]], LAMBDA m1 :
        [m |-> m1, ret |-> MeshApplyTo(m1, m1.inAct), e |-> ""]))

\* Mesh.SoftBound(delta) for a delta of any shape up to size x size
SoftBound(m, delta) ==
  [i \in 1..Len(delta) |-> [j \in 1..Len(delta[i]) |->
     IF m.softBound
     THEN IF delta[i][j] > 0
          THEN Mul(delta[i][j], Mul(m.wbInc, Scale - m.linMatrix[i][j]))
          ELSE Mul(delta[i][j], Mul(m.wbDec, m.linMatrix[i][j]))
     ELSE IF delta[i][j] > 0 THEN Mul(delta[i][j], m.wbInc)
          ELSE Mul(delta[i][j], m.wbDec)]]

\* np.mean(self.matrix)
MatMean(M) ==
  SumTo([i \in 1..Len(M) |-> SumTo(M[i], Len(M[i]))], Len(M)) \div (Len(M) * Len(M))

\* "self.WtBalance" as a condition: the bound method itself, which is truthy
\* whatever wbOn is
WtBalanceTruthy(m) == TRUE

\* a weight-balance pass on every call that takes the deviation below the low
\* threshold from the mean itself, without the floor wbAvgThr
WtBalanceNoFloor(m) ==
  LET avg == MatMean(m.matrix)
      factLo == m.wbLoGain * (m.wbLoThr - avg)
      factHi == m.wbHiGain * (avg - m.wbHiThr)
      decLo == (Scale * Scale) \div (Scale + factLo)
      incHi == (Scale * Scale) \div (Scale + factHi)
  IN IF avg < m.wbLoThr
     THEN [m EXCEPT !.WtBalCtr = 0, !.wbFact = factLo, !.wbDec = decLo,
                    !.wbInc = 2 * Scale - decLo]
     ELSE IF avg > m.wbHiThr
     THEN [m EXCEPT !.WtBalCtr = 0, !.wbFact = factHi, !.wbInc = incHi,
                    !.wbDec = 2 * Scale - incHi]
     ELSE [m EXCEPT !.WtBalCtr = 0]

\* Mesh.WtBalance
WtBalance(m) ==
  LET ctr == m.WtBalCtr + 1
      avg == MatMean(m.matrix)
      lo == IF avg < m.wbAvgThr THEN m.wbAvgThr ELSE avg
      factLo == m.wbLoGain * (m.wbLoThr - lo)
      factHi == m.wbHiGain * (avg - m.wbHiThr)
      decLo == (Scale * Scale) \div (Scale + factLo)
      incHi == (Scale * Scale) \div (Scale + factHi)
  IN IF ctr >= m.WtBalInterval
     THEN IF ~WtBalanceTruthy(m) THEN [m EXCEPT !.WtBalCtr = 0]
          ELSE IF avg < m.wbLoThr
          THEN [m EXCEPT !.WtBalCtr = 0, !.wbFact = factLo, !.wbDec = decLo,
                         !.wbInc = 2 * Scale - decLo]
          ELSE IF avg > m.wbHiThr
          THEN [m EXCEPT !.WtBalCtr = 0, !.wbFact = factHi, !.wbInc = incHi,
                         !.wbDec = 2 * Scale - incHi]
          ELSE [m EXCEPT !.WtBalCtr = 0]
     ELSE [m EXCEPT !.WtBalCtr = ctr]

\* Mesh.Update, delta being what self.XCAL.GetDeltas returns
MeshUpdateM(m, delta) ==
  Then(SoftBound(m, delta), LAMBDA d :
    Then([m EXCEPT !.linMatrix = ClipLinMatrix(
            [i \in 1..m.size |-> [j \in 1..m.size |->
               IF i <= Len(d) /\ j <= Len(d[i]) THEN m.linMatrix[i][j] + d[i][j]
               ELSE m.linMatrix[i][j]]])], LAMBDA m1 :
      Then([m1 EXCEPT !.matrix = SigMatrix(m1)], LAMBDA m2 : WtBalance(m2))))

\* TransposeMesh.get: self.mesh.Gscale * self.mesh.get().T
TransposeGet(target) ==
  [i \in 1..target.size |-> [j \in 1..target.size |->
     Mul(target.Gscale, MeshGetM(target)[j][i])]]

\* a feedback Update that falls through to Mesh.Update of the wrapped mesh
TransposeUpdateThrough(t, target, delta) == MeshUpdateM(target, delta)

\* TransposeMesh.Update: return None; the wrapped mesh afterwards
TransposeUpdate(t, target, delta) == target

\* a feedback set that stores the matrix in the wrapped mesh
TransposeSetThrough(t, target, M) == [e |-> "", target |-> MeshSet(target, M)]

\* TransposeMesh.set(matrix): set takes no argument and its body raises, so
\* the call raises in either form; the exception and the wrapped mesh afterwards
TransposeSet(t, target, M) == [e |-> "TypeError", target |-> target]


\* ------------------------------------------------------------------------
\* State
\* ------------------------------------------------------------------------
VARIABLES
  isFFFB,        \* the network is an FFFB (feedback meshes on interior layers)
  isInput,       \* Layer.isInput, per layer
  freeze,        \* Layer.freeze, per layer
  preLin, preAct, obsLin, obsAct,   \* the four state vectors, per layer
  meshes,        \* Layer.meshes, per layer: a sequence of mesh objects
  inData, outData,  \* the caller's batches passed to Net.Learn
  err,           \* the exception that ended the call, "" if none
  pc,            \* position of the control loop of Net.Learn
  numTimeSteps, numEpochs, reset,   \* arguments of Net.Learn
  epoch, sample, index, time, li,   \* loop variables of Net.Learn / Net.Infer
  lastResult,    \* lastResult / result: what the last Net.Predict returned
  outputData,    \* outputData of Net.Infer
  epochResults,  \* epochResults of Net.Learn
  results,       \* results of Net.Learn
  weightsOut,    \* what the last getWeights call returned, with its argument
  \* history variables (not program state)
  origOut,       \* outData as the caller passed it
  nPre, nObs, nLearn, didHandOff, didCopyBack,  \* steps taken for this sample
  updCount,      \* per layer: Update calls on its meshes for this sample
  ruleCount,     \* per layer: learning-rule calls for this sample
  updated,       \* the layers whose mesh Update ran in the last step
  finalOut,      \* per epoch, per sample: output of the sample's last Predict
  mesh,          \* a Mesh of meshes.py
  tmesh,         \* a TransposeMesh of meshes.py wrapping mesh
  ret,           \* what the last mesh-level call returned
  nCalls,        \* number of direct calls made that may change the objects' state
  mPrev, tPrev,  \* mesh and tmesh before the last step (history)
  step,          \* the kind of the last step taken
  arg,           \* the layer the last Freeze / Unfreeze call was made on
  wPrev          \* meshes before the last step

netVars ==
  << isFFFB, isInput, freeze, preLin, preAct, obsLin, obsAct, meshes, inData,
     outData, err >>
learnVars ==
  << pc, numTimeSteps, numEpochs, reset, epoch, sample, index, time, li,
     lastResult, outputData, epochResults, results >>
histVars ==
  << origOut, nPre, nObs, nLearn, didHandOff, didCopyBack, updCount, ruleCount,
     updated, finalOut, step, arg, wPrev >>
meshVars == << mesh, tmesh, ret, nCalls, mPrev, tPrev >>
vars == << netVars, learnVars, histVars, weightsOut, meshVars >>

\* the program state the Layer / Net operators work on
Store ==
  [isInput |-> isInput, freeze |-> freeze, preLin |-> preLin, preAct |-> preAct,
   obsLin |-> obsLin, obsAct |-> obsAct, meshes |-> meshes, inData |-> inData,
   outData |-> outData, err |-> err]

Commit(s) ==
  /\ preLin' = s.preLin /\ preAct' = s.preAct
  /\ obsLin' = s.obsLin /\ obsAct' = s.obsAct
  /\ meshes' = s.meshes /\ inData' = s.inData /\ outData' = s.outData
  /\ err' = s.err

Layers == 1..Len(meshes)
LastLayer == Len(meshes)
NumSamples == Len(inData)

\* ------------------------------------------------------------------------
\* Construction
\* ------------------------------------------------------------------------
OneHot(r) == [i \in 1..LayerSize |-> IF i = ((r - 1) % LayerSize) + 1 THEN Scale ELSE 0]
\* input batch: unit vectors; target batch: the unit vectors, shifted by one
InBatch(n) == [r \in 1..n |-> OneHot(r)]
OutBatch(n) == [r \in 1..n |-> OneHot(r + 1)]

NetInit ==
  /\ isFFFB \in BOOLEAN
  /\ \E nl \in 2..MaxLayers :
       /\ meshes = IF isFFFB THEN FFFBMeshes(nl) ELSE NetMeshes(nl)
       /\ isInput = [l \in 1..nl |-> l = 1]
       /\ freeze = [l \in 1..nl |-> FALSE]
       /\ preLin = [l \in 1..nl |-> Own(Zeros(LayerSize))]
       /\ preAct = [l \in 1..nl |-> Own(Zeros(LayerSize))]
       /\ obsLin = [l \in 1..nl |-> Own(Zeros(LayerSize))]
       /\ obsAct = [l \in 1..nl |-> Own(Zeros(LayerSize))]
       /\ updCount = [l \in 1..nl |-> 0]
       /\ ruleCount = [l \in 1..nl |-> 0]
  /\ inData = <<>> /\ outData = <<>> /\ err = ""
  /\ pc = "idle"
  /\ numTimeSteps = 0 /\ numEpochs = 0 /\ reset = FALSE
  /\ epoch = 0 /\ sample = 0 /\ index = 0 /\ time = 0 /\ li = 0
  /\ lastResult = <<>> /\ outputData = <<>> /\ epochResults = <<>> /\ results = <<>>
  /\ weightsOut = <<>>
  /\ origOut = <<>>
  /\ nPre = 0 /\ nObs = 0 /\ nLearn = 0
  /\ didHandOff = FALSE /\ didCopyBack = FALSE
  /\ updated = {} /\ finalOut = <<>> /\ step = "init" /\ arg = 0 /\ wPrev = meshes

\* no meshes.py object is constructed
NoMesh == mesh = <<>> /\ tmesh = <<>> /\ ret = <<>> /\ nCalls = 0 /\ mPrev = <<>> /\ tPrev = <<>>

Init == NetInit /\ NoMesh

\* ------------------------------------------------------------------------
\* Configuration calls made before training
\* ------------------------------------------------------------------------
\* Layer.Freeze
Freeze(l) ==
  /\ pc = "idle" /\ ~freeze[l]
  /\ freeze' = [freeze EXCEPT ![l] = TRUE]
  /\ updated' = {} /\ step' = "Freeze" /\ arg' = l /\ wPrev' = meshes
  /\ UNCHANGED meshVars
  /\ UNCHANGED << isFFFB, isInput, preLin, preAct, obsLin, obsAct, meshes, inData,
                  outData, err, learnVars, weightsOut, origOut, nPre, nObs, nLearn,
                  didHandOff, didCopyBack, updCount, ruleCount, finalOut >>

\* Layer.Unfreeze
Unfreeze(l) ==
  /\ pc = "idle" /\ freeze[l]
  /\ freeze' = [freeze EXCEPT ![l] = FALSE]
  /\ updated' = {} /\ step' = "Unfreeze" /\ arg' = l /\ wPrev' = meshes
  /\ UNCHANGED meshVars
  /\ UNCHANGED << isFFFB, isInput, preLin, preAct, obsLin, obsAct, meshes, inData,
                  outData, err, learnVars, weightsOut, origOut, nPre, nObs, nLearn,
                  didHandOff, didCopyBack, updCount, ruleCount, finalOut >>

\* ------------------------------------------------------------------------
\* Net.Learn, one action per step of its control loop
\* ------------------------------------------------------------------------
\* the call: results = np.zeros(numEpochs+1), then Evaluate -> Infer starts
LearnCall(k, ne, ns, rst) ==
  /\ pc = "idle"
  /\ numTimeSteps' = k /\ numEpochs' = ne /\ reset' = rst
  /\ inData' = InBatch(ns) /\ outData' = OutBatch(ns) /\ origOut' = OutBatch(ns)
  /\ results' = Zeros(ne + 1)
  /\ outputData' = [r \in 1..ns |-> Zeros(LayerSize)]
  /\ sample' = 1 /\ index' = 0 /\ time' = 0
  /\ pc' = "infer" /\ weightsOut' = <<>>
  /\ updated' = {} /\ step' = "Learn" /\ arg' = 0 /\ wPrev' = meshes
  /\ UNCHANGED meshVars
  /\ UNCHANGED << isFFFB, isInput, freeze, preLin, preAct, obsLin, obsAct, meshes, err,
                  epoch, li, lastResult, epochResults, nPre, nObs, nLearn,
                  didHandOff, didCopyBack, updCount, ruleCount, finalOut >>

\* a settling loop that leaves after its first pass
PhaseDoneEarly(t, k) == TRUE

\* "for time in range(numTimeSteps)": the pass with loop variable t is the last
PhaseDone(t, k) == t + 1 = k

\* the row of the batch the loop variable inDatum / outDatum is a view of
InDatum == View("in", sample, Len(inData[sample]))
OutDatum == View("out", sample, Len(outData[sample]))

\* Net.Infer: one Net.Predict call; after the last one of a sample,
\* outputData[index] = result; index += 1
InferStep ==
  /\ pc = "infer"
  /\ \E s0 \in {NetPredict(Store, InDatum)} :
     LET out == Rd(s0, s0.preAct[LastLayer])
         last == PhaseDone(time, numTimeSteps)
         \* outputData[index] = result, with numpy's shape check
         s == IF s0.err = "" /\ last /\ ~CanBcast(Len(out), Len(outputData[index + 1]))
              THEN [s0 EXCEPT !.err = "ValueError"] ELSE s0
     IN /\ Commit(s)
        /\ lastResult' = out
        /\ IF s.err # "" THEN
             /\ pc' = "raised"
             /\ UNCHANGED << time, sample, index, outputData >>
           ELSE IF ~last THEN
             /\ time' = time + 1
             /\ UNCHANGED << pc, sample, index, outputData >>
           ELSE
             /\ outputData' = [outputData EXCEPT ![index + 1] = Bcast(out, Len(@))]
             /\ index' = index + 1
             /\ time' = 0
             /\ sample' = IF sample < NumSamples THEN sample + 1 ELSE sample
             /\ pc' = IF sample < NumSamples THEN "infer" ELSE "evaluate"
  /\ updated' = {} /\ step' = "Infer.Predict" /\ arg' = 0 /\ wPrev' = meshes
  /\ UNCHANGED meshVars
  /\ UNCHANGED << isFFFB, isInput, freeze, numTimeSteps, numEpochs, reset, epoch, li,
                  epochResults, results, weightsOut, origOut, nPre, nObs, nLearn,
                  didHandOff, didCopyBack, updCount, ruleCount, finalOut >>

\* results[0] = self.Evaluate(...); epochResults = np.zeros(...)
EvaluateStep ==
  /\ pc = "evaluate"
  /\ results' = [results EXCEPT ![1] = Metric(outputData, outData)]
  /\ epochResults' = [r \in 1..Len(outData) |-> Zeros(LayerLen(Store, LastLayer))]
  /\ epoch' = 0 /\ sample' = 1 /\ index' = 0 /\ time' = 0
  /\ finalOut' = <<>>
  /\ pc' = IF numEpochs > 0 THEN "sample" ELSE "returned"
  /\ updated' = {} /\ step' = "Evaluate" /\ arg' = 0 /\ wPrev' = meshes
  /\ UNCHANGED meshVars
  /\ UNCHANGED << netVars, numTimeSteps, numEpochs, reset, li, lastResult, outputData,
                  weightsOut, origOut, nPre, nObs, nLearn, didHandOff, didCopyBack,
                  updCount, ruleCount >>

\* top of the loop over samples: "if reset: self.resetActivity()"
SampleStep ==
  /\ pc = "sample"
  /\ \E s \in {IF reset THEN NetReset(Store) ELSE Store} : Commit(s)
  /\ pc' = "predict" /\ time' = 0
  /\ nPre' = 0 /\ nObs' = 0 /\ nLearn' = 0
  /\ didHandOff' = FALSE /\ didCopyBack' = FALSE
  /\ updCount' = [l \in Layers |-> 0] /\ ruleCount' = [l \in Layers |-> 0]
  /\ updated' = {} /\ step' = "sample" /\ arg' = 0 /\ wPrev' = meshes
  /\ finalOut' = IF sample = 1 THEN Append(finalOut, <<>>) ELSE finalOut
  /\ UNCHANGED meshVars
  /\ UNCHANGED << isFFFB, isInput, freeze, numTimeSteps, numEpochs, reset, epoch, sample,
                  index, li, lastResult, outputData, epochResults, results, weightsOut,
                  origOut >>

\* lastResult = self.Predict(inDatum)
PredictStep ==
  /\ pc = "predict"
  /\ \E s \in {NetPredict(Store, InDatum)} :
     LET out == Rd(s, s.preAct[LastLayer])
         last == PhaseDone(time, numTimeSteps)
     IN /\ Commit(s)
        /\ lastResult' = out
        /\ nPre' = nPre + 1
        /\ time' = IF last THEN 0 ELSE time + 1
        /\ pc' = IF s.err # "" THEN "raised" ELSE IF last THEN "record" ELSE "predict"
        /\ finalOut' = IF last /\ s.err = ""
                       THEN [finalOut EXCEPT ![epoch + 1] = Append(@, out)]
                       ELSE finalOut
  /\ updated' = {} /\ step' = "Predict" /\ arg' = 0 /\ wPrev' = meshes
  /\ UNCHANGED meshVars
  /\ UNCHANGED << isFFFB, isInput, freeze, numTimeSteps, numEpochs, reset, epoch, sample,
                  index, li, outputData, epochResults, results, weightsOut, origOut,
                  nObs, nLearn, didHandOff, didCopyBack, updCount, ruleCount >>

\* epochResults[index][:] = lastResult; index += 1
RecordStep ==
  /\ pc = "record"
  /\ IF CanBcast(Len(lastResult), Len(epochResults[index + 1]))
     THEN /\ epochResults' = [epochResults EXCEPT
                                ![index + 1] = Bcast(lastResult, Len(@))]
          /\ index' = index + 1 /\ pc' = "handoff" /\ err' = err
     ELSE /\ err' = "ValueError" /\ pc' = "raised"
          /\ UNCHANGED << epochResults, index >>
  /\ updated' = {} /\ step' = "record" /\ arg' = 0 /\ wPrev' = meshes
  /\ UNCHANGED meshVars
  /\ UNCHANGED << isFFFB, isInput, freeze, preLin, preAct, obsLin, obsAct, meshes,
                  inData, outData, numTimeSteps, numEpochs, reset, epoch, sample, time,
                  li, lastResult, outputData, results, weightsOut, origOut, nPre, nObs,
                  nLearn, didHandOff, didCopyBack, updCount, ruleCount, finalOut >>

\* the phase hand-off: predict state copied into the observe state
HandOffStep ==
  /\ pc = "handoff"
  /\ \E s \in {HandOff(Store, 2)} :
        /\ Commit(s)
        /\ pc' = IF s.err # "" THEN "raised" ELSE "observe"
  /\ didHandOff' = TRUE /\ time' = 0
  /\ updated' = {} /\ step' = "handoff" /\ arg' = 0 /\ wPrev' = meshes
  /\ UNCHANGED meshVars
  /\ UNCHANGED << isFFFB, isInput, freeze, numTimeSteps, numEpochs, reset, epoch, sample,
                  index, li, lastResult, outputData, epochResults, results, weightsOut,
                  origOut, nPre, nObs, nLearn, didCopyBack, updCount, ruleCount,
                  finalOut >>

\* self.Observe(inDatum, outDatum)
ObserveStep ==
  /\ pc = "observe"
  /\ \E s \in {NetObserve(Store, InDatum, OutDatum)} :
     LET last == PhaseDone(time, numTimeSteps)
     IN /\ Commit(s)
        /\ time' = IF last THEN 0 ELSE time + 1
        /\ pc' = IF s.err # "" THEN "raised" ELSE IF last THEN "learn" ELSE "observe"
        /\ li' = IF last THEN 1 ELSE li
  /\ nObs' = nObs + 1
  /\ updated' = {} /\ step' = "Observe" /\ arg' = 0 /\ wPrev' = meshes
  /\ UNCHANGED meshVars
  /\ UNCHANGED << isFFFB, isInput, freeze, numTimeSteps, numEpochs, reset, epoch, sample,
                  index, lastResult, outputData, epochResults, results, weightsOut,
                  origOut, nPre, nLearn, didHandOff, didCopyBack, updCount, ruleCount,
                  finalOut >>

\* "for layer in self.layers: layer.Learn()", one layer per step
LearnStep ==
  /\ pc = "learn"
  /\ \E s \in {LayerLearn(Store, li)} :
     LET skip == LearnSkipped(isInput[li], freeze[li])
     IN /\ Commit(s)
        /\ ruleCount' = IF skip THEN ruleCount ELSE [ruleCount EXCEPT ![li] = @ + 1]
        /\ updCount' = IF skip THEN updCount ELSE [updCount EXCEPT ![li] = @ + 1]
        /\ updated' = IF skip THEN {} ELSE {li}
        /\ pc' = IF s.err # "" THEN "raised"
                 ELSE IF li = LastLayer THEN "copyback" ELSE "learn"
  /\ li' = IF li = LastLayer THEN li ELSE li + 1
  /\ nLearn' = nLearn + 1
  /\ step' = "Layer.Learn" /\ arg' = 0 /\ wPrev' = meshes
  /\ UNCHANGED meshVars
  /\ UNCHANGED << isFFFB, isInput, freeze, numTimeSteps, numEpochs, reset, epoch, sample,
                  index, time, lastResult, outputData, epochResults, results, weightsOut,
                  origOut, nPre, nObs, didHandOff, didCopyBack, finalOut >>

\* the copy-back: observe state copied into the predict state
CopyBackStep ==
  /\ pc = "copyback"
  /\ \E s \in {CopyBack(Store, 2)} :
        /\ Commit(s)
        /\ pc' = IF s.err # "" THEN "raised"
                 ELSE IF sample < NumSamples THEN "sample" ELSE "metric"
  /\ sample' = IF sample < NumSamples THEN sample + 1 ELSE sample
  /\ didCopyBack' = TRUE
  /\ updated' = {} /\ step' = "copyback" /\ arg' = 0 /\ wPrev' = meshes
  /\ UNCHANGED meshVars
  /\ UNCHANGED << isFFFB, isInput, freeze, numTimeSteps, numEpochs, reset, epoch, index,
                  time, li, lastResult, outputData, epochResults, results, weightsOut,
                  origOut, nPre, nObs, nLearn, didHandOff, updCount, ruleCount,
                  finalOut >>

\* results[epoch+1] = self.metric(epochResults, outData); next epoch or return
MetricStep ==
  /\ pc = "metric"
  /\ results' = [results EXCEPT ![epoch + 2] = Metric(epochResults, outData)]
  /\ epoch' = epoch + 1
  /\ sample' = 1 /\ index' = 0
  /\ pc' = IF epoch + 1 < numEpochs THEN "sample" ELSE "returned"
  /\ updated' = {} /\ step' = "metric" /\ arg' = 0 /\ wPrev' = meshes
  /\ UNCHANGED meshVars
  /\ UNCHANGED << netVars, numTimeSteps, numEpochs, reset, time, li, lastResult,
                  outputData, epochResults, weightsOut, origOut, nPre, nObs, nLearn,
                  didHandOff, didCopyBack, updCount, ruleCount, finalOut >>

\* Net.getWeights(ffOnly), before or after training
GetWeightsCall(ffOnly) ==
  /\ pc \in {"idle", "returned"}
  /\ weightsOut' = [ffOnly |-> ffOnly, w |-> GetWeights(Store, ffOnly)]
  /\ updated' = {} /\ step' = "getWeights" /\ arg' = 0 /\ wPrev' = meshes
  /\ UNCHANGED meshVars
  /\ UNCHANGED << netVars, learnVars, origOut, nPre, nObs, nLearn, didHandOff,
                  didCopyBack, updCount, ruleCount, finalOut >>

Next ==
  \/ \E l \in Layers : Freeze(l)
  \/ \E l \in Layers : Unfreeze(l)
  \/ \E k \in 1..MaxTimeSteps, ne \in 1..MaxEpochs, ns \in 1..MaxSamples,
        rst \in BOOLEAN : LearnCall(k, ne, ns, rst)
  \/ InferStep
  \/ EvaluateStep
  \/ SampleStep
  \/ PredictStep
  \/ RecordStep
  \/ HandOffStep
  \/ ObserveStep
  \/ LearnStep
  \/ CopyBackStep
  \/ MetricStep
  \/ \E ffOnly \in BOOLEAN : GetWeightsCall(ffOnly)

Spec == Init /\ [][Next]_vars

\* ------------------------------------------------------------------------
\* Net.Learn on layers of unequal sizes (specification SpecShapes): the first
\* and the last layer have the size of the data, the layers between them are
\* one smaller, as large, or one larger
\* ------------------------------------------------------------------------
LayerSizes(nl) ==
  { sizes \in [1..nl -> (LayerSize - 1)..(LayerSize + 1)] :
      sizes[1] = LayerSize /\ sizes[nl] = LayerSize }

ShapesInit ==
  /\ isFFFB \in BOOLEAN
  /\ \E nl \in 2..MaxLayers : \E sizes \in LayerSizes(nl) :
       /\ meshes = IF isFFFB THEN SizedFFFBMeshes(sizes) ELSE SizedNetMeshes(sizes)
       /\ isInput = [l \in 1..nl |-> l = 1]
       /\ freeze = [l \in 1..nl |-> FALSE]
       /\ preLin = [l \in 1..nl |-> Own(Zeros(sizes[l]))]
       /\ preAct = [l \in 1..nl |-> Own(Zeros(sizes[l]))]
       /\ obsLin = [l \in 1..nl |-> Own(Zeros(sizes[l]))]
       /\ obsAct = [l \in 1..nl |-> Own(Zeros(sizes[l]))]
       /\ updCount = [l \in 1..nl |-> 0]
       /\ ruleCount = [l \in 1..nl |-> 0]
  /\ inData = <<>> /\ outData = <<>> /\ err = ""
  /\ pc = "idle"
  /\ numTimeSteps = 0 /\ numEpochs = 0 /\ reset = FALSE
  /\ epoch = 0 /\ sample = 0 /\ index = 0 /\ time = 0 /\ li = 0
  /\ lastResult = <<>> /\ outputData = <<>> /\ epochResults = <<>> /\ results = <<>>
  /\ weightsOut = <<>>
  /\ origOut = <<>>
  /\ nPre = 0 /\ nObs = 0 /\ nLearn = 0
  /\ didHandOff = FALSE /\ didCopyBack = FALSE
  /\ updated = {} /\ finalOut = <<>> /\ step = "init" /\ arg = 0 /\ wPrev = meshes
  /\ NoMesh

SpecShapes == ShapesInit /\ [][Next]_vars

\* ------------------------------------------------------------------------
\* Mesh-level calls (specification SpecMesh): a Mesh and its TransposeMesh of
\* meshes.py, and the meshes of a three-layer FFFB of __init__.py
\* ------------------------------------------------------------------------
\* size of the meshes.py mesh
MeshSize == 2
\* the WtBalInterval the meshes are constructed with (the default)
WtBalIntervalArg == 10
\* calls that may change weights, per behaviour
MaxMeshCalls == 2

\* bound of the Glorot-uniform draw, sqrt(6)/sqrt(2*size), rounded down
GlorotUniform(size) ==
  IF size = 1 THEN 34 ELSE IF size = 2 THEN 24 ELSE IF size = 3 THEN 20 ELSE 17

\* matrices the random draw of the constructor can produce
RawMatrices(size) ==
  LET g == GlorotUniform(size) IN
  { [i \in 1..size |-> [j \in 1..size |-> IF i = j THEN g - 1 ELSE -g]],
    [i \in 1..size |-> [j \in 1..size |-> IF i = j THEN 14 ELSE -6]],
    [i \in 1..size |-> [j \in 1..size |-> IF i <= j THEN 3 ELSE 17]] }

\* matrices passed to Mesh.set
SetMatrices(size) ==
  { [i \in 1..size |-> [j \in 1..size |-> IF i = j THEN Scale ELSE 0]],
    [i \in 1..size |-> [j \in 1..size |-> IF i = j THEN 15 ELSE 5]],
    [i \in 1..size |-> [j \in 1..size |-> IF i = j THEN 26 ELSE -4]] }

\* deltas of the mesh's shape or of one row: one value everywhere, or
\* alternating in sign
Uniform(rows, cols, d) == [i \in 1..rows |-> [j \in 1..cols |-> d]]
Checker(rows, cols, d) ==
  [i \in 1..rows |-> [j \in 1..cols |-> IF (i + j) % 2 = 0 THEN d ELSE -d]]
Deltas(size) ==
  UNION { { Uniform(r, c, -30), Uniform(r, c, 6), Checker(r, c, 30) } :
          r \in {1, size}, c \in {size} }

netRest ==
  << isFFFB, isInput, freeze, preLin, preAct, obsLin, obsAct, inData, outData,
     learnVars, weightsOut, origOut, nPre, nObs, nLearn, didHandOff, didCopyBack,
     updCount, ruleCount, updated, finalOut, arg >>

MeshInit ==
  /\ isFFFB = TRUE
  /\ meshes = FFFBMeshes(3)
  /\ isInput = [l \in 1..3 |-> l = 1]
  /\ freeze = [l \in 1..3 |-> FALSE]
  /\ preLin = [l \in 1..3 |-> Own(Zeros(LayerSize))]
  /\ preAct = [l \in 1..3 |-> Own(Zeros(LayerSize))]
  /\ obsLin = [l \in 1..3 |-> Own(Zeros(LayerSize))]
  /\ obsAct = [l \in 1..3 |-> Own(Zeros(LayerSize))]
  /\ updCount = [l \in 1..3 |-> 0]
  /\ ruleCount = [l \in 1..3 |-> 0]
  /\ inData = <<>> /\ outData = <<>> /\ err = ""
  /\ pc = "mesh calls"
  /\ numTimeSteps = 0 /\ numEpochs = 0 /\ reset = FALSE
  /\ epoch = 0 /\ sample = 0 /\ index = 0 /\ time = 0 /\ li = 0
  /\ lastResult = <<>> /\ outputData = <<>> /\ epochResults = <<>> /\ results = <<>>
  /\ weightsOut = <<>> /\ origOut = <<>>
  /\ nPre = 0 /\ nObs = 0 /\ nLearn = 0
  /\ didHandOff = FALSE /\ didCopyBack = FALSE
  /\ updated = {} /\ finalOut = <<>> /\ step = "init" /\ arg = 0 /\ wPrev = meshes
  /\ \E raw \in RawMatrices(MeshSize), wbOn \in BOOLEAN, softBound \in BOOLEAN :
       \* the mesh into layer 3 from layer 2, and its transpose, the feedback
       \* mesh into layer 2 from layer 3
       mesh = WithInLayer(MeshNew(MeshSize, raw, wbOn, softBound, WtBalIntervalArg), 2)
  /\ tmesh = WithInLayer(TransposeNew(mesh.size, Uniform(mesh.size, mesh.size, 3),
                                      TRUE, TRUE, WtBalIntervalArg), 3)
  /\ ret = <<>> /\ nCalls = 0 /\ mPrev = mesh /\ tPrev = tmesh

\* bookkeeping shared by the mesh-level calls
MeshCall(name, mutating) ==
  /\ pc = "mesh calls"
  /\ mutating => nCalls < MaxMeshCalls
  /\ nCalls' = IF mutating THEN nCalls + 1 ELSE nCalls
  /\ step' = name
  /\ mPrev' = mesh /\ tPrev' = tmesh /\ wPrev' = meshes
  /\ UNCHANGED netRest

\* Mesh.set(M)
MSetCall(M) ==
  /\ MeshCall("Mesh.set", TRUE)
  /\ mesh' = MeshSet(mesh, M)
  /\ ret' = <<>> /\ err' = ""
  /\ UNCHANGED << tmesh, meshes >>

\* Mesh.Update()
MUpdateCall(delta) ==
  /\ MeshCall("Mesh.Update", TRUE)
  /\ mesh' = MeshUpdateM(mesh, delta)
  /\ ret' = <<>> /\ err' = ""
  /\ UNCHANGED << tmesh, meshes >>

\* Mesh.setGscale()
MSetGscaleCall(totalRel, avgActP) ==
  /\ MeshCall("Mesh.setGscale", TRUE)
  /\ mesh' = MeshSetGscale(mesh, totalRel, avgActP, mesh.size)
  /\ ret' = <<>> /\ err' = ""
  /\ UNCHANGED << tmesh, meshes >>

\* Mesh.get()
MGetCall ==
  /\ MeshCall("Mesh.get", FALSE)
  /\ ret' = MeshGetM(mesh) /\ err' = ""
  /\ UNCHANGED << mesh, tmesh, meshes >>

\* TransposeMesh.Update(delta)
TUpdateCall(delta) ==
  /\ MeshCall("TransposeMesh.Update", FALSE)
  /\ mesh' = TransposeUpdate(tmesh, mesh, delta)
  /\ ret' = <<>> /\ err' = ""
  /\ UNCHANGED << tmesh, meshes >>

\* TransposeMesh.set(M)
TSetCall(M) ==
  /\ MeshCall("TransposeMesh.set", FALSE)
  /\ \E r \in {TransposeSet(tmesh, mesh, M)} : mesh' = r.target /\ err' = r.e
  /\ ret' = <<>>
  /\ UNCHANGED << tmesh, meshes >>

\* TransposeMesh.get()
TGetCall ==
  /\ MeshCall("TransposeMesh.get", FALSE)
  /\ ret' = TransposeGet(mesh) /\ err' = ""
  /\ UNCHANGED << mesh, tmesh, meshes >>

\* Mesh.getInput()
MGetInputCall ==
  /\ MeshCall("Mesh.getInput", FALSE)
  /\ ret' = MeshGetInput(mesh) /\ err' = ""
  /\ UNCHANGED << mesh, tmesh, meshes >>

\* TransposeMesh.getInput()
TGetInputCall ==
  /\ MeshCall("TransposeMesh.getInput", FALSE)
  /\ ret' = TransposeGetInput(tmesh, mesh) /\ err' = ""
  /\ UNCHANGED << mesh, tmesh, meshes >>

\* Mesh.Update(delta) of __init__.py on the mesh the feedback mesh wraps
BaseUpdateCall(delta) ==
  /\ MeshCall("Mesh.Update (base)", TRUE)
  /\ meshes' = MeshUpdate(Store, 3, 1, delta).meshes
  /\ ret' = <<>> /\ err' = ""
  /\ UNCHANGED << mesh, tmesh >>

\* fbMesh.Update(delta) on the feedback mesh of the interior layer
FbUpdateCall(delta) ==
  /\ MeshCall("fbMesh.Update", FALSE)
  /\ meshes' = MeshUpdate(Store, 2, 2, delta).meshes
  /\ ret' = <<>> /\ err' = ""
  /\ UNCHANGED << mesh, tmesh >>

\* fbMesh.set(M) on the feedback mesh of the interior layer
FbSetCall(M) ==
  /\ MeshCall("fbMesh.set", FALSE)
  /\ \E s \in {FbMeshSet([Store EXCEPT !.err = ""], 2, 2, M)} :
        meshes' = s.meshes /\ err' = s.err
  /\ ret' = <<>>
  /\ UNCHANGED << mesh, tmesh >>

MeshNext ==
  \/ \E M \in SetMatrices(mesh.size) : MSetCall(M)
  \/ \E delta \in Deltas(mesh.size) : MUpdateCall(delta)
  \/ \E a \in {0, Scale} : MSetGscaleCall(a + a \div 5, a)
  \/ MGetCall
  \/ \E delta \in Deltas(mesh.size) : TUpdateCall(delta)
  \/ \E M \in SetMatrices(mesh.size) : TSetCall(M)
  \/ TGetCall
  \/ MGetInputCall
  \/ TGetInputCall
  \/ \E d \in {-Scale, Scale} : BaseUpdateCall(Uniform(LayerSize, LayerSize, d))
  \/ \E d \in {-Scale, Scale} : FbUpdateCall(Uniform(LayerSize, LayerSize, d))
  \/ \E M \in SetMatrices(LayerSize) : FbSetCall(M)

SpecMesh == MeshInit /\ [][MeshNext]_vars

\* ------------------------------------------------------------------------
\* Layer-level calls (specification SpecLayer): the layers of a two-layer Net
\* called directly, with the caller's data vectors in inData
\* ------------------------------------------------------------------------
\* direct calls on layers, per behaviour
MaxLayerCalls == 3

\* a data vector of length n
Buf(n) == [i \in 1..n |-> IF i = 1 THEN Scale ELSE Scale \div 2]

LayerInit ==
  /\ isFFFB = FALSE
  /\ meshes = NetMeshes(2)
  /\ isInput = [l \in 1..2 |-> l = 1]
  /\ freeze = [l \in 1..2 |-> FALSE]
  /\ preLin = [l \in 1..2 |-> Own(Zeros(LayerSize))]
  /\ preAct = [l \in 1..2 |-> Own(Zeros(LayerSize))]
  /\ obsLin = [l \in 1..2 |-> Own(Zeros(LayerSize))]
  /\ obsAct = [l \in 1..2 |-> Own(Zeros(LayerSize))]
  /\ updCount = [l \in 1..2 |-> 0]
  /\ ruleCount = [l \in 1..2 |-> 0]
  \* data shorter than, as long as, and longer than the layers
  /\ inData = << Buf(LayerSize - 1), Buf(LayerSize), Buf(LayerSize + 1) >>
  /\ outData = <<>> /\ err = ""
  /\ pc = "layer calls"
  /\ numTimeSteps = 0 /\ numEpochs = 0 /\ reset = FALSE
  /\ epoch = 0 /\ sample = 0 /\ index = 0 /\ time = 0 /\ li = 0
  /\ lastResult = <<>> /\ outputData = <<>> /\ epochResults = <<>> /\ results = <<>>
  /\ weightsOut = <<>> /\ origOut = <<>>
  /\ nPre = 0 /\ nObs = 0 /\ nLearn = 0
  /\ didHandOff = FALSE /\ didCopyBack = FALSE
  /\ updated = {} /\ finalOut = <<>> /\ step = "init" /\ arg = 0 /\ wPrev = meshes
  /\ mesh = <<>> /\ tmesh = <<>> /\ ret = <<>> /\ nCalls = 0 /\ mPrev = <<>> /\ tPrev = <<>>

\* bookkeeping shared by the layer-level calls; s is the state the call leaves
LayerCall(name, l, s) ==
  /\ pc = "layer calls"
  /\ nCalls < MaxLayerCalls
  /\ nCalls' = nCalls + 1
  /\ Commit(s)
  /\ step' = name /\ arg' = l /\ wPrev' = meshes
  /\ UNCHANGED << isFFFB, isInput, freeze, learnVars, weightsOut, origOut, nPre, nObs,
                  nLearn, didHandOff, didCopyBack, updCount, ruleCount, updated,
                  finalOut, mesh, tmesh, ret, mPrev, tPrev >>

\* the state a call starts from: the previous call's exception is over
Fresh == [Store EXCEPT !.err = ""]

\* layer.ClampPre(data), data being the caller's vector r
LClampPre(l, r) ==
  \E s \in {ClampPre(Fresh, l, View("in", r, Len(inData[r])))} :
     LayerCall("Layer.ClampPre", l, s)

\* layer.ClampObs(data), data being the caller's vector r
LClampObs(l, r) ==
  \E s \in {ClampObs(Fresh, l, View("in", r, Len(inData[r])))} :
     LayerCall("Layer.ClampObs", l, s)

\* layer.Predict()
LPredict(l) == \E s \in {LayerPredict(Fresh, l)} : LayerCall("Layer.Predict", l, s)

\* layer.Observe()
LObserve(l) == \E s \in {LayerObserve(Fresh, l)} : LayerCall("Layer.Observe", l, s)

\* layer.Learn()
LLearn(l) == \E s \in {LayerLearn(Fresh, l)} : LayerCall("Layer.Learn", l, s)

\* layer.resetActivity()
LReset(l) == \E s \in {LayerReset(Fresh, l)} : LayerCall("Layer.resetActivity", l, s)

LayerNext ==
  \/ \E l \in Layers, r \in 1..Len(inData) : LClampPre(l, r)
  \/ \E l \in Layers, r \in 1..Len(inData) : LClampObs(l, r)
  \/ \E l \in Layers : LPredict(l)
  \/ \E l \in Layers : LObserve(l)
  \/ \E l \in Layers : LLearn(l)
  \/ \E l \in Layers : LReset(l)

SpecLayer == LayerInit /\ [][LayerNext]_vars

\* ------------------------------------------------------------------------
\* The bounded transform and its inverse (specification SpecTransform): a
\* Mesh constructed with transform parameters Off and Gain, invSigmoid and
\* sigmoid called on it
\* ------------------------------------------------------------------------
\* largest Off and Gain a mesh is constructed with
MaxOff == 2
MaxGain == 2
\* inputs x are those with ((1-x)/(Off x)) = (p/q)^Gain for p, q up to MaxRoot
MaxRoot == 5

\* the variables of Net.Learn and of the layers, at rest
NoNet ==
  /\ isFFFB = FALSE /\ meshes = <<>> /\ isInput = <<>> /\ freeze = <<>>
  /\ preLin = <<>> /\ preAct = <<>> /\ obsLin = <<>> /\ obsAct = <<>>
  /\ updCount = <<>> /\ ruleCount = <<>>
  /\ inData = <<>> /\ outData = <<>> /\ err = ""
  /\ numTimeSteps = 0 /\ numEpochs = 0 /\ reset = FALSE
  /\ epoch = 0 /\ sample = 0 /\ index = 0 /\ time = 0 /\ li = 0
  /\ lastResult = <<>> /\ outputData = <<>> /\ epochResults = <<>> /\ results = <<>>
  /\ weightsOut = <<>> /\ origOut = <<>>
  /\ nPre = 0 /\ nObs = 0 /\ nLearn = 0
  /\ didHandOff = FALSE /\ didCopyBack = FALSE
  /\ updated = {} /\ finalOut = <<>> /\ wPrev = <<>>

TransformInputs(m) ==
  { Frac(Pow(q, m.Gain), m.Off * Pow(p, m.Gain) + Pow(q, m.Gain)) :
      p \in 1..MaxRoot, q \in 1..MaxRoot }

TransformInit ==
  /\ NoNet
  /\ pc = "transform calls"
  /\ \E off \in 1..MaxOff, gain \in 1..MaxGain :
       mesh = [MeshNew(1, << <<0>> >>, TRUE, TRUE, 10) EXCEPT !.Off = off, !.Gain = gain]
  /\ tmesh = <<>> /\ ret = <<>> /\ nCalls = 0 /\ mPrev = mesh /\ tPrev = <<>>
  /\ step = "init" /\ arg = 0

\* mesh.invSigmoid(x)
InvSigmoidCall(x) ==
  /\ pc = "transform calls"
  /\ ret' = invSigmoid(mesh, x)
  /\ arg' = x /\ step' = "Mesh.invSigmoid"
  /\ UNCHANGED << netVars, learnVars, weightsOut, origOut, nPre, nObs, nLearn,
                  didHandOff, didCopyBack, updCount, ruleCount, updated, finalOut,
                  wPrev, mesh, tmesh, nCalls, mPrev, tPrev >>

\* mesh.sigmoid(y), y being what invSigmoid returned
SigmoidCall ==
  /\ pc = "transform calls" /\ step = "Mesh.invSigmoid"
  /\ ret' = sigmoid(mesh, ret)
  /\ step' = "Mesh.sigmoid"
  /\ UNCHANGED << netVars, learnVars, weightsOut, origOut, nPre, nObs, nLearn,
                  didHandOff, didCopyBack, updCount, ruleCount, updated, finalOut,
                  wPrev, mesh, tmesh, nCalls, mPrev, tPrev, arg >>

TransformNext ==
  \/ \E x \in TransformInputs(mesh) : InvSigmoidCall(x)
  \/ SigmoidCall

SpecTransform == TransformInit /\ [][TransformNext]_vars

\* ------------------------------------------------------------------------
\* The delta-sender encoding (specification SpecApply): Mesh.apply called on
\* a Mesh of meshes.py with the activations of its sending layer
\* ------------------------------------------------------------------------
\* the activations a sender's entries take, and the thresholds of the layer
ActValues == << 0, 2, 3, 6, 8 >>
SendValues == {2, 5}
DeltaValues == {0, 2}

\* activation vectors shorter than, as long as and longer than the mesh
DataVectors(size) ==
  { [i \in 1..n |-> ActValues[((i + k) % Len(ActValues)) + 1]] :
      n \in (size - 1)..(size + 1), k \in 1..Len(ActValues) }

ApplyInit ==
  /\ NoNet
  /\ pc = "apply calls"
  /\ \E send \in SendValues, delta \in DeltaValues :
       mesh = WithThresh(MeshNew(MeshSize, Uniform(MeshSize, MeshSize, Scale \div 2),
                                 TRUE, TRUE, WtBalIntervalArg), send, delta)
  /\ tmesh = <<>> /\ ret = <<>> /\ nCalls = 0 /\ mPrev = mesh /\ tPrev = <<>>
  /\ step = "init" /\ arg = <<>>

\* mesh.apply(), the sending layer's activity being data
MApplyCall(data) ==
  /\ pc = "apply calls"
  /\ \E r \in {MeshApplyM(mesh, data)} :
        mesh' = r.m /\ ret' = r.ret /\ err' = r.e
  /\ mPrev' = mesh /\ arg' = data /\ step' = "Mesh.apply"
  /\ UNCHANGED << isFFFB, isInput, freeze, preLin, preAct, obsLin, obsAct, meshes,
                  inData, outData, learnVars, weightsOut, origOut, nPre, nObs, nLearn,
                  didHandOff, didCopyBack, updCount, ruleCount, updated, finalOut,
                  wPrev, tmesh, nCalls, tPrev >>

ApplyNext == \E data \in DataVectors(mesh.size) : MApplyCall(data)

SpecApply == ApplyInit /\ [][ApplyNext]_vars

\* ------------------------------------------------------------------------
\* Properties of Net.Learn (specification Spec)
\* ------------------------------------------------------------------------
\* the meshes as the constructor built them
Constructed == IF isFFFB THEN FFFBMeshes(Len(meshes)) ELSE NetMeshes(Len(meshes))

\* C1: within a sample the steps of Net.Learn come in the order
\* Predict x numTimeSteps, hand-off, Observe x numTimeSteps, Learn of every
\* layer, copy-back; no Predict follows an Observe of the same sample.
C1_StepOrder ==
  /\ step = "Predict" =>
        nPre <= numTimeSteps /\ nObs = 0 /\ ~didHandOff /\ nLearn = 0 /\ ~didCopyBack
  /\ step = "handoff" => nPre = numTimeSteps /\ nObs = 0 /\ nLearn = 0
  /\ step = "Observe" =>
        nPre = numTimeSteps /\ didHandOff /\ nObs <= numTimeSteps /\ nLearn = 0
        /\ ~didCopyBack
  /\ step = "Layer.Learn" =>
        nPre = numTimeSteps /\ nObs = numTimeSteps /\ didHandOff /\ ~didCopyBack
  /\ step = "copyback" =>
        nLearn = Len(meshes) /\ nObs = numTimeSteps /\ nPre = numTimeSteps

C1_Witness ==
  /\ step = "copyback" /\ numTimeSteps = 2 /\ Len(meshes) = 3
  /\ epoch = 1 /\ sample = 2 /\ nPre = 2 /\ nObs = 2 /\ nLearn = 3

\* C2: per sample every layer's mesh Update runs at most once, exactly once
\* for a layer that is neither input nor frozen; weights change only in a
\* step that runs Update, and only those of the layer updated.
C2_UpdateOnly ==
  /\ \A l \in Layers : updCount[l] <= 1
  /\ step = "copyback" =>
        \A l \in Layers : ~isInput[l] /\ ~freeze[l] => updCount[l] = 1
  /\ meshes # wPrev =>
        /\ step = "Layer.Learn" /\ updated # {}
        /\ \A l \in Layers \ updated : meshes[l] = wPrev[l]
  /\ step \in {"Infer.Predict", "Evaluate", "sample", "Predict", "record", "handoff",
               "Observe", "copyback", "metric"} => meshes = wPrev

C2_Witness ==
  /\ step = "Layer.Learn" /\ updated = {3} /\ meshes[3] # wPrev[3]
  /\ meshes[2] # Constructed[2] /\ updCount[2] = 1 /\ updCount[3] = 1

\* C18: Layer.Learn on a layer that is neither input nor frozen takes the
\* delta of the rule for the sending layer of its first mesh and the layer
\* itself, and adds it to the first mesh only: every other mesh the layer
\* owns, a feedback mesh included, keeps its object state and the weights
\* its get() returns.
C18_FirstMeshOnly ==
  step = "Layer.Learn" /\ err = "" =>
    \A l \in updated :
      LET before == [Store EXCEPT !.meshes = wPrev]
      IN /\ wPrev[l][1].inLayer = l - 1
         /\ meshes[l][1].matrix =
               MeshUpdateMatrix(wPrev[l][1], CHL(before, wPrev[l][1].inLayer, l).v)
         /\ \A i \in 2..Len(meshes[l]) :
               /\ meshes[l][i] = wPrev[l][i]
               /\ MeshGet(Store, meshes[l][i]) = MeshGet(before, wPrev[l][i])

C18_Witness ==
  /\ step = "Layer.Learn" /\ err = "" /\ isFFFB /\ updated = {2}
  /\ Len(meshes[2]) = 2 /\ meshes[2][2].kind = "fbMesh"
  /\ meshes[2][1].matrix # wPrev[2][1].matrix
  /\ meshes[2][2] = wPrev[2][2]

\* C4 (as claimed): Learn returns numEpochs+1 values; element e+1 is the
\* metric of the outputs of each sample's last Predict in epoch e against the
\* targets the caller passed in.
C4_SeriesAgainstCallersTargets ==
  pc = "returned" =>
    /\ Len(results) = numEpochs + 1
    /\ \A e \in 1..numEpochs : results[e + 1] = Metric(finalOut[e], origOut)

\* C19 (as claimed): Net.Learn never writes to the caller's batches: at every
\* metric computation and when Learn returns, inData and outData hold the
\* values the caller passed in.
C19_CallerDataUntouched ==
  pc \in {"metric", "returned"} =>
    /\ outData = origOut
    /\ inData = InBatch(Len(inData))

\* C8: Layer.Learn on a frozen or input layer calls neither the rule nor
\* Update and leaves all weights alone, so a frozen layer keeps its
\* constructed weights through training; every other non-input layer is
\* still updated once per sample; Unfreeze clears the flag.
C8_FrozenLayer ==
  /\ step = "Layer.Learn" /\ (isInput[nLearn] \/ freeze[nLearn]) =>
        meshes = wPrev /\ updCount[nLearn] = 0 /\ ruleCount[nLearn] = 0
  /\ \A l \in Layers : freeze[l] \/ isInput[l] => meshes[l] = Constructed[l]
  /\ step = "copyback" =>
        \A l \in Layers : ~isInput[l] /\ ~freeze[l] =>
           updCount[l] = 1 /\ ruleCount[l] = 1
  /\ step = "Unfreeze" => ~freeze[arg]
  /\ step = "Freeze" => freeze[arg]

C8_Witness ==
  /\ pc = "returned" /\ Len(meshes) = 3 /\ freeze[2] /\ ~freeze[3]
  /\ meshes[2] = Constructed[2] /\ meshes[3] # Constructed[3]
  /\ updCount[2] = 0 /\ updCount[3] = 1

\* C9: getWeights(ffOnly=True) returns L-1 matrices, the first mesh of each
\* non-input layer; getWeights(ffOnly=False) returns one matrix per mesh in
\* layer order then mesh order, 2L-3 of them for an FFFB.
C9_GetWeights ==
  weightsOut # <<>> =>
    LET w == weightsOut.w
        nl == Len(meshes)
        \* number of meshes owned by the layers before layer l
        Before(l) == IF isFFFB THEN (IF l = 1 THEN 0 ELSE 2 * (l - 2)) ELSE
                     (IF l = 1 THEN 0 ELSE l - 2)
    IN IF weightsOut.ffOnly
       THEN /\ Len(w) = nl - 1
            /\ \A l \in 2..nl : w[l - 1] = meshes[l][1].matrix
       ELSE /\ Len(w) = IF isFFFB THEN 2 * nl - 3 ELSE nl - 1
            /\ \A l \in 2..nl : w[Before(l) + 1] = meshes[l][1].matrix
            /\ isFFFB => \A l \in 2..(nl - 1) :
                  w[Before(l) + 2] = Transpose(meshes[l + 1][1].matrix)

C9_Witness ==
  /\ weightsOut # <<>> /\ ~weightsOut.ffOnly /\ isFFFB /\ Len(meshes) = 3
  /\ Len(weightsOut.w) = 3 /\ pc = "returned"
  /\ weightsOut.w[3] # Eye(LayerSize)


\* ------------------------------------------------------------------------
\* Properties of Net.Learn on layers of unequal sizes (specification SpecShapes)
\* ------------------------------------------------------------------------
\* C13: Net.Learn runs to completion without raising, even when a mesh is
\* applied to a data vector whose length does not match its matrix.
C13_LearnNeverRaises ==
  pc # "raised" /\ err = ""

\* ------------------------------------------------------------------------
\* Properties of the mesh-level calls (specification SpecMesh)
\* ------------------------------------------------------------------------
InUnit(M) == \A i \in 1..Len(M) : \A j \in 1..Len(M[i]) : M[i][j] \in 0..Scale

\* C3: for a Mesh of meshes.py, after construction and after any sequence of
\* set and Update calls every entry of matrix lies in [0,1], and after any
\* Update every entry of linMatrix lies in [0,1] as well.
C3_WeightsInUnitInterval ==
  mesh # <<>> =>
    /\ InUnit(mesh.matrix)
    /\ step = "Mesh.Update" => InUnit(mesh.linMatrix)

\* an Update with a negative delta on a mesh whose linear weights were below 0
\* before it, following another weight-changing call
C3_Witness ==
  /\ step = "Mesh.Update" /\ nCalls = 2
  /\ \E i, j \in 1..mesh.size : mPrev.linMatrix[i][j] <= 0 /\ mesh.linMatrix[i][j] = 0
  /\ \E i, j \in 1..mesh.size : mesh.matrix[i][j] \in 1..(Scale - 1)

\* C5: Update on a feedback mesh (fbMesh of __init__.py, TransposeMesh of
\* meshes.py) leaves the matrix and linMatrix of its target mesh, and the
\* weights of every other mesh, unchanged.
C5_FeedbackUpdateNoOp ==
  step \in {"TransposeMesh.Update", "fbMesh.Update"} =>
    /\ mesh.matrix = mPrev.matrix /\ mesh.linMatrix = mPrev.linMatrix
    /\ tmesh.matrix = tPrev.matrix /\ tmesh.linMatrix = tPrev.linMatrix
    /\ \A l \in 1..Len(meshes) : \A i \in 1..Len(meshes[l]) :
          meshes[l][i].matrix = wPrev[l][i].matrix

\* a feedback Update after the target meshes had their weights changed
C5_Witness ==
  /\ step \in {"TransposeMesh.Update", "fbMesh.Update"}
  /\ nCalls = 2 /\ mesh.modified
  /\ meshes[3][1].matrix # Eye(LayerSize)

\* C6: TransposeMesh.get returns the target's matrix transposed and multiplied
\* by the target's Gscale exactly once.
C6_TransposeScaledOnce ==
  step = "TransposeMesh.get" =>
    ret = [i \in 1..mesh.size |-> [j \in 1..mesh.size |->
             Mul(mesh.Gscale, mesh.matrix[j][i])]]

\* C7: set with a matrix argument on a feedback mesh raises and leaves the
\* target mesh's matrix and linMatrix unchanged.
C7_FeedbackSetRaises ==
  step \in {"TransposeMesh.set", "fbMesh.set"} =>
    /\ err # ""
    /\ mesh.matrix = mPrev.matrix /\ mesh.linMatrix = mPrev.linMatrix
    /\ \A l \in 1..Len(meshes) : \A i \in 1..Len(meshes[l]) :
          meshes[l][i].matrix = wPrev[l][i].matrix

\* a set on a feedback mesh after the target meshes had their weights changed
C7_Witness ==
  /\ step \in {"TransposeMesh.set", "fbMesh.set"} /\ err # ""
  /\ nCalls = 2 /\ mesh.modified
  /\ meshes[3][1].matrix # Eye(LayerSize)


\* entry w of matrix is the image of entry l of linMatrix under the forward
\* transform of mesh m, up to the rounding of the two transforms
IsImage(m, w, l) ==
  IF l <= 0 THEN w = 0
  ELSE IF l >= Scale THEN w = Scale
  ELSE w = MSigmoid(m, l) \/ (w \in 1..(Scale - 1) /\ l = MInvSigmoid(m, w))

\* C12: in every reachable state of a Mesh, matrix is the image of linMatrix
\* under the forward transform; in particular set(M) leaves no entry of
\* linMatrix at its value from before the call.
C12_MatrixIsImage ==
  mesh # <<>> =>
    \A i, j \in 1..mesh.size : IsImage(mesh, mesh.matrix[i][j], mesh.linMatrix[i][j])

\* the weight-balance factors of a mesh
WbFactors(m) == << m.wbInc, m.wbDec, m.wbFact >>

\* C14: for a Mesh constructed with WtBalInterval = N, the weight-balance pass
\* runs only on every N-th Update; any other Update only advances WtBalCtr and
\* leaves wbInc, wbDec and wbFact unchanged.  (Fewer than N calls are made, so
\* no Update here is an N-th one.)
C14_BalanceEveryNth ==
  (step = "Mesh.Update" /\ nCalls < WtBalIntervalArg) =>
    /\ WbFactors(mesh) = WbFactors(mPrev)
    /\ mesh.WtBalCtr = mPrev.WtBalCtr + 1

\* C15: whenever a weight-balance pass runs: if mean(matrix) is below wbLoThr
\* then afterwards wbInc >= 1 >= wbDec > 0, the deviation being taken from
\* max(mean, wbAvgThr); if it is above wbHiThr then wbDec >= 1 >= wbInc > 0;
\* in both cases wbInc + wbDec = 2; between the thresholds wbInc, wbDec and
\* wbFact keep their values.
C15_BalanceFactors ==
  (step = "Mesh.Update" /\ mesh.WtBalCtr = 0) =>
    LET avg == MatMean(mesh.matrix) IN
    IF avg < mesh.wbLoThr THEN
      /\ mesh.wbFact = mesh.wbLoGain * (mesh.wbLoThr - Max(avg, mesh.wbAvgThr))
      /\ mesh.wbInc >= Scale /\ Scale >= mesh.wbDec /\ mesh.wbDec > 0
      /\ mesh.wbInc + mesh.wbDec = 2 * Scale
    ELSE IF avg > mesh.wbHiThr THEN
      /\ mesh.wbFact = mesh.wbHiGain * (avg - mesh.wbHiThr)
      /\ mesh.wbDec >= Scale /\ Scale >= mesh.wbInc /\ mesh.wbInc > 0
      /\ mesh.wbInc + mesh.wbDec = 2 * Scale
    ELSE WbFactors(mesh) = WbFactors(mPrev)

\* a pass that finds the mean above wbHiThr, after a pass that had found it
\* below wbAvgThr
C15_Witness ==
  /\ step = "Mesh.Update" /\ mesh.WtBalCtr = 0 /\ nCalls = 2
  /\ MatMean(mPrev.matrix) < mPrev.wbAvgThr /\ mPrev.wbInc > Scale
  /\ MatMean(mesh.matrix) > mesh.wbHiThr /\ mesh.wbDec > Scale

\* C21 (as claimed): a Mesh constructed with wbOn=False never balances: after
\* any sequence of Update calls wbInc, wbDec and wbFact have their constructed
\* values 1, 1 and 0.
C21_WbOffKeepsFactors ==
  (mesh # <<>> /\ ~mesh.wbOn) => WbFactors(mesh) = << Scale, Scale, 0 >>

\* C17: in an FFFB network the feedback mesh of an interior layer i reads the
\* activation of layer i+1, the layer passed to it as its sending layer, and
\* never that of layer i itself (with the layers visited in construction
\* order, that is layer i+1's activation of the previous timestep).
C17_FeedbackReadsNextLayer ==
  /\ \A l \in 1..Len(meshes) : \A i \in 1..Len(meshes[l]) :
        meshes[l][i].kind = "fbMesh" => meshes[l][i].inLayer = l + 1
  /\ step = "TransposeMesh.getInput" =>
        ret.layer = tmesh.inLayer /\ ret.layer # mesh.inLayer

\* ------------------------------------------------------------------------
\* Properties of the layer-level calls (specification SpecLayer)
\* ------------------------------------------------------------------------
\* C10: after any sequence of Predict, Observe, ClampPre, ClampObs, Learn and
\* resetActivity calls, with clamped data of any length, the four state
\* vectors of every layer have exactly the length the layer was constructed
\* with, and so has len(layer).
C10_StateVectorsKeepSize ==
  \A l \in Layers :
    /\ Len(Rd(Store, preLin[l])) = LayerSize /\ Len(Rd(Store, preAct[l])) = LayerSize
    /\ Len(Rd(Store, obsLin[l])) = LayerSize /\ Len(Rd(Store, obsAct[l])) = LayerSize
    /\ LayerLen(Store, l) = LayerSize


\* ------------------------------------------------------------------------
\* Properties of the bounded transform (specification SpecTransform)
\* ------------------------------------------------------------------------
\* C11: for every Off and Gain, sigmoid applied to invSigmoid of x returns x
\* for every x strictly inside (0,1).
C11_RoundTrip ==
  step = "Mesh.sigmoid" => ret = arg


\* ------------------------------------------------------------------------
\* Properties of the delta-sender encoding (specification SpecApply)
\* ------------------------------------------------------------------------
\* entry i of the zero-padded activation the last apply call read
Sent(i) == Pad(arg, mesh.size)[i]
\* entry i was propagated by the last apply call / was left as it was
Propagated(i) ==
  /\ mesh.lastAct[i] = Sent(i)
  /\ mesh.inAct[i] = mPrev.inAct[i] + (Sent(i) - mPrev.lastAct[i])
Unchanged(i) ==
  mesh.lastAct[i] = mPrev.lastAct[i] /\ mesh.inAct[i] = mPrev.inAct[i]
Applied == step = "Mesh.apply" /\ err = ""

\* C16 as stated: an entry is propagated whenever its absolute change since
\* the last propagated value exceeds Delta or its magnitude exceeds Send; only
\* when neither holds is its contribution treated as unchanged.
C16_PropagatedIfEither ==
  Applied =>
    \A i \in 1..mesh.size :
      IF \/ Abs(Sent(i) - mPrev.lastAct[i]) > mesh.OptThreshParams.Delta
         \/ Sent(i) > mesh.OptThreshParams.Send
      THEN Propagated(i) ELSE Unchanged(i)

\* C16 as amended: an entry is propagated only when its absolute change
\* exceeds Delta and its magnitude exceeds Send; when either condition fails
\* its contribution is treated as unchanged, except that an entry at or below
\* Send whose last propagated value is above Send is zeroed.
C16_PropagatedIfBoth ==
  Applied =>
    \A i \in 1..mesh.size :
      IF /\ Abs(Sent(i) - mPrev.lastAct[i]) > mesh.OptThreshParams.Delta
         /\ Sent(i) > mesh.OptThreshParams.Send
      THEN Propagated(i)
      ELSE IF Sent(i) <= mesh.OptThreshParams.Send
              /\ mPrev.lastAct[i] > mesh.OptThreshParams.Send
      THEN mesh.lastAct[i] = 0 /\ mesh.inAct[i] = mPrev.inAct[i] - mPrev.lastAct[i]
      ELSE Unchanged(i)

\* an entry above Send whose change is within Delta and is not propagated,
\* beside an entry that is
C16_Witness ==
  /\ Applied
  /\ \E i \in 1..mesh.size :
       /\ Sent(i) > mesh.OptThreshParams.Send
       /\ Sent(i) # mPrev.lastAct[i]
       /\ Abs(Sent(i) - mPrev.lastAct[i]) <= mesh.OptThreshParams.Delta
       /\ Unchanged(i)
  /\ \E i \in 1..mesh.size : Sent(i) # mPrev.lastAct[i] /\ Propagated(i)


\* C20: starting from lastAct = inAct = 0 and after any sequence of apply
\* calls, for every index i: inAct[i] = lastAct[i]; and if the zero-padded
\* activation of the latest call is at or below Send then inAct[i] = 0,
\* otherwise it differs from inAct[i] by at most Delta.
C20_AccumulatorTracksSender ==
  mesh # <<>> =>
    \A i \in 1..mesh.size :
      /\ mesh.inAct[i] = mesh.lastAct[i]
      /\ Applied =>
           IF Sent(i) <= mesh.OptThreshParams.Send THEN mesh.inAct[i] = 0
           ELSE Abs(Sent(i) - mesh.inAct[i]) <= mesh.OptThreshParams.Delta

\* a call that zeroes an entry that dropped to or below Send and leaves an
\* entry above Send within Delta of its last propagated value
C20_Witness ==
  /\ Applied
  /\ \E i \in 1..mesh.size :
       /\ Sent(i) <= mesh.OptThreshParams.Send
       /\ mPrev.inAct[i] > mesh.OptThreshParams.Send /\ mesh.inAct[i] = 0
  /\ \E i \in 1..mesh.size :
       /\ Sent(i) > mesh.OptThreshParams.Send
       /\ Sent(i) # mesh.inAct[i]

====
